---- MODULE Spec2Model ----
(***************************************************************************)
(* OpenSplit: the Hub (coordinator event loop, hub.go) and the TimerState  *)
(* it owns (timer.go).  The Hub's loop handles one event at a time:        *)
(* register, unregister, an inbound frame (command) or a tick.  The clock  *)
(* is an integer `now`; durations are integers in the same unit.           *)
(***************************************************************************)
EXTENDS Integers, Sequences, FiniteSets, TLC

VARIABLES
    now,        \* the wall clock read by time.Now() / time.Since()
    ts,         \* Hub.timer: the one TimerState
    clients,    \* Hub.clients: the registered clients
    send,       \* client.send of every client: the buffered channel's content
    closed,     \* whether client.send has been closed
    panicked,   \* the Hub goroutine hit a runtime panic (the process is gone)
    blocked,    \* the client on whose full channel the Hub goroutine is parked
                \* in a send, "" when it is not parked
    lastEvent,  \* history: the last event the loop handled, with the clients
                \* its broadcast dropped
    watched,    \* history: the client whose traffic is recorded
    wlog,       \* history: the state at the watched client's registration, then
                \* the snapshot of every broadcast made while it stayed registered
    wrecv,      \* history: the messages placed in the watched client's queue
    ranFor      \* history: the clock time that passed while Running in the run
                \* in progress (0 when no run is in progress)

vars == <<now, ts, clients, send, closed, panicked, blocked, lastEvent, watched,
          wlog, wrecv, ranFor>>

\* ------------------------------------------------------------------ bounds

\* The clock stops advancing at MaxTime.
MaxTime == 2

\* Longest predefined split list a setSplits command carries.
MaxSplits == 2

\* NextSplit is not issued once the split history holds this many entries.
MaxHistory == MaxSplits

\* Capacity of client.send (ClientSendBufferSize, 256 in config.go), scaled.
SendCap == 2

\* The client objects ServeWs creates.
Clients == {"c1", "c2", "c3"}

\* No broadcast is made once the watched client's record holds MaxLog entries.
MaxLog == SendCap + 1

\* ------------------------------------------------------------ JSON values

\* A decoded JSON value (interface{}): absent, a string, a number (float64),
\* an array or an object.  A number is kept as a count of halves, so that
\* 3 halves is 1.5 and the conversion to time.Duration has something to cut.
Absent == [k |-> "absent"]

JStr(s) == [k |-> "str", s |-> s]

JNum(h) == [k |-> "num", h |-> h]

JArr(a) == [k |-> "arr", a |-> a]

JObj(f) == [k |-> "obj", f |-> f]

\* cmd[field] on a map[string]interface{}: the zero value when missing.
Get(m, f) == IF f \in DOMAIN m THEN m[f] ELSE Absent

\* A conversion that rounds half up.
MutDurationRounds(h) == (h + 1) \div 2

\* time.Duration(floatVal): conversion float64 -> int64 truncates toward zero.
Duration(h) == IF h >= 0 THEN h \div 2 ELSE -((-h) \div 2)

\* ------------------------------------------------------------- TimerState

DefaultTimerTitle == "OpenSplit"

\* The runner emoji of config.go, written as a word.
DefaultSplitIcon == "runner"

NewTimerState ==
    [ CurrentTime         |-> 0,
      Status              |-> "stopped",
      Splits              |-> << >>,
      PredefinedSplits    |-> << >>,
      TimerTitle          |-> "OpenSplit",
      CurrentSplitIndex   |-> -1,
      StartTime           |-> 0,
      PausedAt            |-> 0,
      BestSplitTimes      |-> << >>,
      BestCumulativeTimes |-> << >>,
      PersonalBest        |-> 0,
      SumOfBest           |-> 0,
      PBSplitTimes        |-> << >>,
      WorldRecord         |-> 0 ]

\* make([]time.Duration, n)
Zeros(n) == [i \in 1..n |-> 0]

\* A Start that leaves the current split index alone.
MutStartNoIndex(t, n) ==
    IF t.Status = "stopped"
      THEN [t EXCEPT !.StartTime = n, !.PausedAt = 0, !.Status = "running"]
      ELSE IF t.Status = "paused"
        THEN [t EXCEPT !.StartTime = n - t.PausedAt, !.Status = "running"]
        ELSE [t EXCEPT !.Status = "running"]

\* A Start that, from Paused, anchors the run at the present instant.
MutStartRestarts(t, n) ==
    IF t.Status = "stopped"
      THEN [t EXCEPT !.StartTime = n,
                     !.PausedAt = 0,
                     !.CurrentSplitIndex =
                        IF Len(t.PredefinedSplits) > 0 THEN 0 ELSE @,
                     !.Status = "running"]
      ELSE IF t.Status = "paused"
        THEN [t EXCEPT !.StartTime = n, !.Status = "running"]
        ELSE [t EXCEPT !.Status = "running"]

\* Start starts or resumes the timer; n is time.Now().
Start(t, n) ==
    IF t.Status = "stopped"
      THEN [t EXCEPT !.StartTime = n,
                     !.PausedAt = 0,
                     !.CurrentSplitIndex =
                        IF Len(t.PredefinedSplits) > 0 THEN 0 ELSE @,
                     !.Status = "running"]
      ELSE IF t.Status = "paused"
        THEN [t EXCEPT !.StartTime = n - t.PausedAt, !.Status = "running"]
        ELSE [t EXCEPT !.Status = "running"]

\* A Pause that does nothing when Paused.
MutPauseStaysPaused(t, n) ==
    IF t.Status = "running"
      THEN [t EXCEPT !.PausedAt = n - t.StartTime, !.Status = "paused"]
      ELSE t

\* A Pause that resumes without moving the start anchor.
MutPauseKeepsAnchor(t, n) ==
    IF t.Status = "running"
      THEN [t EXCEPT !.PausedAt = n - t.StartTime, !.Status = "paused"]
      ELSE IF t.Status = "paused"
        THEN [t EXCEPT !.Status = "running"]
        ELSE t

\* Pause toggles pause/unpause; n is the clock at the call.
Pause(t, n) ==
    IF t.Status = "running"
      THEN [t EXCEPT !.PausedAt = n - t.StartTime, !.Status = "paused"]
      ELSE IF t.Status = "paused"
        THEN [t EXCEPT !.StartTime = n - t.PausedAt, !.Status = "running"]
        ELSE t

\* A Reset that leaves the split index where the run had it.
MutResetKeepsIndex(t) ==
    [t EXCEPT !.CurrentTime = 0, !.Status = "stopped", !.Splits = << >>,
              !.StartTime = 0, !.PausedAt = 0]

\* A Reset that also forgets the personal best.
MutResetClearsPB(t) ==
    [t EXCEPT !.CurrentTime = 0, !.Status = "stopped", !.Splits = << >>,
              !.CurrentSplitIndex = -1, !.StartTime = 0, !.PausedAt = 0,
              !.PersonalBest = 0]

\* Reset resets the timer.
Reset(t) ==
    [t EXCEPT !.CurrentTime = 0,
              !.Status = "stopped",
              !.Splits = << >>,
              !.CurrentSplitIndex = -1,
              !.StartTime = 0,
              !.PausedAt = 0]

\* A SetPredefinedSplits that clears the split history in every status.
MutSetSplitsClearsAlways(t, splits, title) ==
    LET numSplits == Len(splits)
        realloc   == Len(t.BestSplitTimes) # numSplits
    IN  [t EXCEPT !.PredefinedSplits = splits,
                  !.TimerTitle = title,
                  !.CurrentSplitIndex = -1,
                  !.Splits = << >>,
                  !.BestSplitTimes = IF realloc THEN Zeros(numSplits) ELSE @,
                  !.BestCumulativeTimes = IF realloc THEN Zeros(numSplits) ELSE @,
                  !.PBSplitTimes = IF realloc THEN Zeros(numSplits) ELSE @]

\* A SetPredefinedSplits that resets the index only when Stopped.
MutSetSplitsKeepsIndex(t, splits, title) ==
    LET numSplits == Len(splits)
        realloc   == Len(t.BestSplitTimes) # numSplits
    IN  [t EXCEPT !.PredefinedSplits = splits,
                  !.TimerTitle = title,
                  !.CurrentSplitIndex = IF t.Status = "stopped" THEN -1 ELSE @,
                  !.Splits = IF t.Status = "stopped" THEN << >> ELSE @,
                  !.BestSplitTimes = IF realloc THEN Zeros(numSplits) ELSE @,
                  !.BestCumulativeTimes = IF realloc THEN Zeros(numSplits) ELSE @,
                  !.PBSplitTimes = IF realloc THEN Zeros(numSplits) ELSE @]

\* SetPredefinedSplits sets the predefined splits.
SetPredefinedSplits(t, splits, title) ==
    LET numSplits == Len(splits)
        realloc   == Len(t.BestSplitTimes) # numSplits
    IN  [t EXCEPT !.PredefinedSplits = splits,
                  !.TimerTitle = title,
                  !.CurrentSplitIndex = -1,
                  !.Splits = IF t.Status = "stopped" THEN << >> ELSE @,
                  !.BestSplitTimes = IF realloc THEN Zeros(numSplits) ELSE @,
                  !.BestCumulativeTimes = IF realloc THEN Zeros(numSplits) ELSE @,
                  !.PBSplitTimes = IF realloc THEN Zeros(numSplits) ELSE @]

RECURSIVE SumSeq(_)
SumSeq(s) == IF s = << >> THEN 0 ELSE s[1] + SumSeq(Tail(s))

\* CalculateSumOfBest computes the sum of all best segment times.
CalculateSumOfBest(t) == [t EXCEPT !.SumOfBest = SumSeq(t.BestSplitTimes)]

\* A guard that does not look at the status.
MutNextSplitActsAnyStatus(t) ==
    /\ t.CurrentSplitIndex >= 0
    /\ t.CurrentSplitIndex < Len(t.PredefinedSplits)

\* NextSplit's guard: the call returns at once unless this holds.
NextSplitActs(t) ==
    /\ t.Status = "running"
    /\ t.CurrentSplitIndex >= 0
    /\ t.CurrentSplitIndex < Len(t.PredefinedSplits)

\* The index expression ts.BestCumulativeTimes[ts.CurrentSplitIndex] of the
\* best-cumulative update is guarded by the length of BestSplitTimes only: it
\* is out of range, a runtime panic, when BestCumulativeTimes is shorter.
NextSplitPanics(t) ==
    /\ NextSplitActs(t)
    /\ t.CurrentSplitIndex < Len(t.BestSplitTimes)
    /\ t.CurrentSplitIndex >= Len(t.BestCumulativeTimes)

\* A segment time measured from the run's start, whatever was recorded.
MutSegmentTimeFromStart(t, n1) == n1 - t.StartTime

\* The segment time NextSplit computes from its first reading n1 of the clock:
\* the time since the start, less the last recorded cumulative time.
SegmentTime(t, n1) ==
    IF Len(t.Splits) > 0
      THEN (n1 - t.StartTime) - t.Splits[Len(t.Splits)].CumulativeTime
      ELSE n1 - t.StartTime

\* NextSplit up to the best-segment update (all it did when it panics).
\* n1 and n2 are its two readings of time.Since(ts.StartTime), n1 <= n2.
NextSplitBestSegment(t, n1, n2) ==
    LET i  == t.CurrentSplitIndex + 1
        segmentTime == SegmentTime(t, n1)
        t1 == [t EXCEPT !.CurrentTime = n2 - t.StartTime]
    IN  IF i <= Len(t1.BestSplitTimes)
           /\ (t1.BestSplitTimes[i] = 0 \/ segmentTime < t1.BestSplitTimes[i])
          THEN CalculateSumOfBest([t1 EXCEPT !.BestSplitTimes[i] = segmentTime])
          ELSE t1

\* Whether a completed run of total time cur replaces personal best pb.
MutIsNewPBIgnoresUnset(pb, cur) == cur < pb

IsNewPB(pb, cur) == pb = 0 \/ cur < pb

\* A delta taken against every best cumulative time that is not zero.
MutDeltaAgainstNonZero(t, cur) ==
    LET i == t.CurrentSplitIndex + 1
    IN  IF i <= Len(t.BestCumulativeTimes) /\ t.BestCumulativeTimes[i] # 0
          THEN cur - t.BestCumulativeTimes[i]
          ELSE 0

\* The delta NextSplit computes, before it updates the best times, for the
\* cumulative time cur: the difference from the best cumulative time of the
\* current split when there is one above zero, else zero.
Delta(t, cur) ==
    LET i == t.CurrentSplitIndex + 1
    IN  IF i <= Len(t.BestCumulativeTimes) /\ t.BestCumulativeTimes[i] > 0
          THEN cur - t.BestCumulativeTimes[i]
          ELSE 0

\* NextSplit advances to the next predefined split (when it does not panic).
NextSplit(t, n1, n2) ==
    IF ~NextSplitActs(t) THEN t
    ELSE
    LET i  == t.CurrentSplitIndex + 1
        segmentTime == SegmentTime(t, n1)
        cur == n2 - t.StartTime
        delta == Delta(t, cur)
        t2 == NextSplitBestSegment(t, n1, n2)
        t3 == IF i <= Len(t2.BestSplitTimes)
                 /\ (t2.BestCumulativeTimes[i] = 0 \/ cur < t2.BestCumulativeTimes[i])
                THEN [t2 EXCEPT !.BestCumulativeTimes[i] = cur]
                ELSE t2
        t4 == [t3 EXCEPT !.Splits = Append(@,
                    [ Name           |-> t.PredefinedSplits[i].Name,
                      SegmentTime    |-> segmentTime,
                      CumulativeTime |-> cur,
                      Delta          |-> delta ])]
    IN  IF t.CurrentSplitIndex = Len(t.PredefinedSplits) - 1
          THEN IF IsNewPB(t4.PersonalBest, cur)
                 THEN [t4 EXCEPT
                         !.Status = "stopped",
                         !.PersonalBest = cur,
                         !.PBSplitTimes =
                             [k \in 1..Len(t4.Splits) |-> t4.Splits[k].CumulativeTime],
                         !.WorldRecord =
                             IF t4.WorldRecord > 0 /\ cur < t4.WorldRecord
                               THEN cur ELSE @,
                         !.CurrentSplitIndex = -1]
                 ELSE [t4 EXCEPT !.Status = "stopped", !.CurrentSplitIndex = -1]
          ELSE [t4 EXCEPT !.CurrentSplitIndex = @ + 1]

\* An Update that recomputes the current time in every status but Stopped.
MutUpdateWhilePaused(t, n) ==
    IF t.Status # "stopped" THEN [t EXCEPT !.CurrentTime = n - t.StartTime] ELSE t

\* Update updates the current time if running.
Update(t, n) ==
    IF t.Status = "running" THEN [t EXCEPT !.CurrentTime = n - t.StartTime] ELSE t

\* ToJSON serializes the timer state: every field but the two tagged json:"-".
ToJSON(t) ==
    [ currentTime         |-> t.CurrentTime,
      status              |-> t.Status,
      splits              |-> t.Splits,
      predefinedSplits    |-> t.PredefinedSplits,
      timerTitle          |-> t.TimerTitle,
      currentSplitIndex   |-> t.CurrentSplitIndex,
      bestSplitTimes      |-> t.BestSplitTimes,
      bestCumulativeTimes |-> t.BestCumulativeTimes,
      personalBest        |-> t.PersonalBest,
      sumOfBest           |-> t.SumOfBest,
      pbSplitTimes        |-> t.PBSplitTimes,
      worldRecord         |-> t.WorldRecord ]

\* A loop of RestorePBData that drops the entries that are not numbers, so
\* that the entries after them move down.
MutRestoreArrayDropsMalformed(a) ==
    LET nums == SelectSeq(a, LAMBDA v : v.k = "num")
    IN  [i \in 1..Len(nums) |-> Duration(nums[i].h)]

\* The loop of RestorePBData over one array: a fresh slice of the same length,
\* entries that are not numbers left zero.
RestoreArray(a) ==
    [i \in 1..Len(a) |-> IF a[i].k = "num" THEN Duration(a[i].h) ELSE 0]

\* RestorePBData restores personal best data from an imported file.
RestorePBData(t, cmd) ==
    LET bst == Get(cmd, "bestSplitTimes")
        bct == Get(cmd, "bestCumulativeTimes")
        pb  == Get(cmd, "personalBest")
        sob == Get(cmd, "sumOfBest")
        pbs == Get(cmd, "pbSplitTimes")
        wr  == Get(cmd, "worldRecord")
    IN  [t EXCEPT
           !.BestSplitTimes      = IF bst.k = "arr" THEN RestoreArray(bst.a) ELSE @,
           !.BestCumulativeTimes = IF bct.k = "arr" THEN RestoreArray(bct.a) ELSE @,
           !.PersonalBest        = IF pb.k = "num" THEN Duration(pb.h) ELSE @,
           !.SumOfBest           = IF sob.k = "num" THEN Duration(sob.h) ELSE @,
           !.PBSplitTimes        = IF pbs.k = "arr" THEN RestoreArray(pbs.a) ELSE @,
           !.WorldRecord         = IF wr.k = "num" THEN Duration(wr.h) ELSE @]

\* -------------------------------------------------------------------- Hub

\* parseSplitDefinitions converts raw JSON split data into SplitDefinitions:
\* items that are not objects are skipped, missing fields get defaults.
parseSplitDefinitions(splits) ==
    LET objs == SelectSeq(splits, LAMBDA s : s.k = "obj")
        Str(v, dflt) == IF v.k = "str" THEN v.s ELSE dflt
    IN  [i \in 1..Len(objs) |->
            [ Name  |-> Str(Get(objs[i].f, "name"), ""),
              Icon  |-> Str(Get(objs[i].f, "icon"), DefaultSplitIcon),
              Notes |-> Str(Get(objs[i].f, "notes"), "") ]]

\* handleSetSplits parses a setSplits command and applies it.
handleSetSplits(t, cmd) ==
    LET splits == Get(cmd, "splits")
        title  == IF Get(cmd, "title").k = "str"
                    THEN Get(cmd, "title").s ELSE DefaultTimerTitle
    IN  IF splits.k # "arr" THEN t
        ELSE SetPredefinedSplits(t, parseSplitDefinitions(splits.a), title)

\* A handleCommand whose switch has a default case that resets the timer.
MutHandleCommandDefaultResets(t, cmd, n1, n2) ==
    LET c == Get(cmd, "command")
    IN  IF c = JStr("start") THEN Start(t, n1)
        ELSE IF c = JStr("pause") THEN Pause(t, n1)
        ELSE IF c = JStr("reset") THEN Reset(t)
        ELSE IF c = JStr("setSplits") THEN handleSetSplits(t, cmd)
        ELSE IF c = JStr("nextSplit") THEN NextSplit(t, n1, n2)
        ELSE IF c = JStr("restorePBData") THEN RestorePBData(t, cmd)
        ELSE IF c = JStr("setWorldRecord") THEN
            IF Get(cmd, "worldRecord").k = "num"
              THEN [t EXCEPT !.WorldRecord = Duration(Get(cmd, "worldRecord").h)]
              ELSE t
        ELSE Reset(t)

\* handleCommand dispatches a decoded command to the timer.  n1 is the clock
\* at the call, n2 the clock at NextSplit's second reading.
handleCommand(t, cmd, n1, n2) ==
    LET c == Get(cmd, "command")
    IN  IF c = JStr("start") THEN Start(t, n1)
        ELSE IF c = JStr("pause") THEN Pause(t, n1)
        ELSE IF c = JStr("reset") THEN Reset(t)
        ELSE IF c = JStr("setSplits") THEN handleSetSplits(t, cmd)
        ELSE IF c = JStr("nextSplit") THEN NextSplit(t, n1, n2)
        ELSE IF c = JStr("restorePBData") THEN RestorePBData(t, cmd)
        ELSE IF c = JStr("setWorldRecord") THEN
            IF Get(cmd, "worldRecord").k = "num"
              THEN [t EXCEPT !.WorldRecord = Duration(Get(cmd, "worldRecord").h)]
              ELSE t
        ELSE t

\* Whether handleCommand panics on cmd in state t.
handleCommandPanics(t, cmd) ==
    Get(cmd, "command") = JStr("nextSplit") /\ NextSplitPanics(t)

\* A channel send `client.send <- state` finds no room.
Full(q) == Len(q) >= SendCap

\* A broadcastState that closes a full client's channel and forgets to delete
\* the client from the map.
MutBroadcastKeepsFull(cl, snd, cls, state) ==
    [ clients |-> cl,
      send    |-> [c \in DOMAIN snd |->
                      IF c \in cl /\ ~Full(snd[c]) /\ ~cls[c]
                        THEN Append(snd[c], state) ELSE snd[c]],
      closed  |-> [c \in DOMAIN cls |-> cls[c] \/ (c \in cl /\ Full(snd[c]))],
      panic   |-> \E c \in cl : cls[c],
      parked  |-> "" ]

\* A broadcastState that passes over a full client and lets it stay.
MutBroadcastSkipsFull(cl, snd, cls, state) ==
    [ clients |-> cl,
      send    |-> [c \in DOMAIN snd |->
                      IF c \in cl /\ ~Full(snd[c]) /\ ~cls[c]
                        THEN Append(snd[c], state) ELSE snd[c]],
      closed  |-> cls,
      panic   |-> \E c \in cl : cls[c],
      parked  |-> "" ]

\* A broadcastState that, on finding one client's channel full, closes and
\* deletes every client.
MutBroadcastEvictsAll(cl, snd, cls, state) ==
    LET any == \E c \in cl : Full(snd[c])
    IN  [ clients |-> IF any THEN {} ELSE cl,
          send    |-> [c \in DOMAIN snd |->
                          IF c \in cl /\ ~Full(snd[c]) /\ ~cls[c]
                            THEN Append(snd[c], state) ELSE snd[c]],
          closed  |-> [c \in DOMAIN cls |-> cls[c] \/ (c \in cl /\ any)],
          panic   |-> \E c \in cl : cls[c],
          parked  |-> "" ]

\* A broadcastState that deletes a full client from the map and leaves its
\* channel open.
MutBroadcastDeletesOnly(cl, snd, cls, state) ==
    [ clients |-> {c \in cl : ~Full(snd[c])},
      send    |-> [c \in DOMAIN snd |->
                      IF c \in cl /\ ~Full(snd[c]) /\ ~cls[c]
                        THEN Append(snd[c], state) ELSE snd[c]],
      closed  |-> cls,
      panic   |-> \E c \in cl : cls[c],
      parked  |-> "" ]

\* A broadcastState whose send is a plain channel send, with no default
\* case: on a full channel the goroutine parks until the client drains it.
MutBroadcastBlocks(cl, snd, cls, state) ==
    [ clients |-> cl,
      send    |-> [c \in DOMAIN snd |->
                      IF c \in cl /\ ~Full(snd[c]) /\ ~cls[c]
                        THEN Append(snd[c], state) ELSE snd[c]],
      closed  |-> cls,
      panic   |-> \E c \in cl : cls[c],
      parked  |-> IF \E c \in cl : Full(snd[c])
                    THEN CHOOSE c \in cl : Full(snd[c]) ELSE "" ]

\* broadcastState sends the snapshot to every registered client; a client
\* whose channel is full has it closed and is deleted from the map.  The
\* iterations are independent of each other, so the map's iteration order
\* does not show.  (A send on, or a close of, a closed channel panics.)  The
\* select has a default case, so the send never parks the goroutine.
broadcastState(cl, snd, cls, state) ==
    [ clients |-> {c \in cl : ~Full(snd[c])},
      send    |-> [c \in DOMAIN snd |->
                      IF c \in cl /\ ~Full(snd[c]) /\ ~cls[c]
                        THEN Append(snd[c], state) ELSE snd[c]],
      closed  |-> [c \in DOMAIN cls |-> cls[c] \/ (c \in cl /\ Full(snd[c]))],
      panic   |-> \E c \in cl : cls[c],
      parked  |-> "" ]

\* The messages a step added at the tail of client c's queue.
Placed(c) ==
    IF Len(send'[c]) > Len(send[c])
      THEN SubSeq(send'[c], Len(send[c]) + 1, Len(send'[c]))
      ELSE << >>

\* h.broadcastState() in the loop: the Hub's fields after the call, and the
\* record of the watched client.
Broadcast(state) ==
    LET r == broadcastState(clients, send, closed, state)
    IN  /\ clients' = r.clients
        /\ send' = r.send
        /\ closed' = r.closed
        /\ panicked' = r.panic
        /\ blocked' = r.parked
        /\ wlog' = IF watched \in clients /\ watched \in clients'
                     THEN Append(wlog, state) ELSE wlog
        /\ wrecv' = wrecv \o Placed(watched)
        /\ UNCHANGED watched

\* The record of the watched client is kept up to MaxLog entries.
MayBroadcast == Len(wlog) < MaxLog

\* The running time of the run in progress after a step of the loop or of
\* the clock.
Elapse ==
    ranFor' = IF ts'.Status = "stopped" THEN 0
              ELSE ranFor + (IF ts.Status = "running" THEN now' - now ELSE 0)

Init ==
    /\ now = 0
    /\ ts = NewTimerState
    /\ clients = {}
    /\ send = [c \in Clients |-> << >>]
    /\ closed = [c \in Clients |-> FALSE]
    /\ panicked = FALSE
    /\ blocked = ""
    /\ lastEvent = [kind |-> "init", cmd |-> "", client |-> "", dropped |-> {}, arg |-> Absent]
    /\ watched \in Clients
    /\ wlog = << >>
    /\ wrecv = << >>
    /\ ranFor = 0

\* A register case that adds the client and sends it nothing.
MutRegisterNoSnapshot(c) ==
    /\ ~panicked /\ blocked = ""
    /\ c \notin clients /\ ~closed[c] /\ send[c] = << >>
    /\ clients' = clients \cup {c}
    /\ lastEvent' = [kind |-> "register", cmd |-> "", client |-> c, dropped |-> {}, arg |-> Absent]
    /\ wlog' = IF c = watched THEN <<ToJSON(ts)>> ELSE wlog
    /\ UNCHANGED <<now, ts, send, closed, panicked, blocked, watched, wrecv, ranFor>>

\* A register case that brings the elapsed time up to date before it sends
\* the snapshot.
MutRegisterUpdatesTimer(c) ==
    /\ ~panicked /\ blocked = ""
    /\ c \notin clients /\ ~closed[c] /\ send[c] = << >>
    /\ clients' = clients \cup {c}
    /\ ts' = Update(ts, now)
    /\ send' = [send EXCEPT ![c] = Append(@, ToJSON(ts'))]
    /\ lastEvent' = [kind |-> "register", cmd |-> "", client |-> c, dropped |-> {}, arg |-> Absent]
    /\ wlog' = IF c = watched THEN <<ToJSON(ts')>> ELSE wlog
    /\ wrecv' = wrecv \o Placed(watched)
    /\ UNCHANGED <<now, closed, panicked, blocked, watched, ranFor>>

\* case client := <-h.register.  ServeWs hands each new client to the Hub
\* once, with an empty open channel; the send that follows is a plain
\* channel send, which parks the goroutine when the channel is full.
Register(c) ==
    /\ ~panicked /\ blocked = ""
    /\ c \notin clients /\ ~closed[c] /\ send[c] = << >>
    /\ clients' = clients \cup {c}
    /\ IF Full(send[c])
         THEN blocked' = c /\ UNCHANGED send
         ELSE send' = [send EXCEPT ![c] = Append(@, ToJSON(ts))] /\ UNCHANGED blocked
    /\ lastEvent' = [kind |-> "register", cmd |-> "", client |-> c, dropped |-> {}, arg |-> Absent]
    /\ wlog' = IF c = watched THEN <<ToJSON(ts)>> ELSE wlog
    /\ wrecv' = wrecv \o Placed(watched)
    /\ UNCHANGED <<now, ts, closed, panicked, watched, ranFor>>

\* An unregister case that closes the client's channel and leaves the client
\* in the map.
MutUnregisterKeepsClient(c) ==
    /\ ~panicked /\ blocked = ""
    /\ IF c \in clients
         THEN /\ closed' = [closed EXCEPT ![c] = TRUE]
              /\ panicked' = closed[c]
         ELSE UNCHANGED <<closed, panicked>>
    /\ lastEvent' = [kind |-> "unregister", cmd |-> "", client |-> c,
                     dropped |-> {}, arg |-> Absent]
    /\ UNCHANGED <<now, ts, clients, send, blocked, watched, wlog, wrecv, ranFor>>

\* An unregister case that deletes and closes without looking the client up.
MutUnregisterAlwaysCloses(c) ==
    /\ ~panicked /\ blocked = ""
    /\ clients' = clients \ {c}
    /\ closed' = [closed EXCEPT ![c] = TRUE]
    /\ panicked' = closed[c]
    /\ lastEvent' = [kind |-> "unregister", cmd |-> "", client |-> c,
                     dropped |-> clients \ clients', arg |-> Absent]
    /\ UNCHANGED <<now, ts, send, blocked, watched, wlog, wrecv, ranFor>>

\* case client := <-h.unregister
Unregister(c) ==
    /\ ~panicked /\ blocked = ""
    /\ IF c \in clients
         THEN /\ clients' = clients \ {c}
              /\ closed' = [closed EXCEPT ![c] = TRUE]
              /\ panicked' = closed[c]
         ELSE UNCHANGED <<clients, closed, panicked>>
    /\ lastEvent' = [kind |-> "unregister", cmd |-> "", client |-> c,
                     dropped |-> clients \ clients', arg |-> Absent]
    /\ UNCHANGED <<now, ts, send, blocked, watched, wlog, wrecv, ranFor>>

\* The name a decoded command carries, for the history.
CmdName(cmd) == IF Get(cmd, "command").k = "str" THEN Get(cmd, "command").s ELSE ""

\* What a decoded command carries besides its name, for the history: the
\* whole object of a restorePBData, the "worldRecord" of any other.
CmdArg(cmd) ==
    IF CmdName(cmd) = "restorePBData" THEN JObj(cmd) ELSE Get(cmd, "worldRecord")

\* case message := <-h.broadcast, the frame decoding to the object cmd:
\* handleCommand, then broadcastState.
Command(cmd) ==
    /\ ~panicked /\ blocked = ""
    /\ MayBroadcast
    /\ CmdName(cmd) = "nextSplit" => Len(ts.Splits) < MaxHistory
    /\ \E n2 \in now..(IF now < MaxTime THEN now + 1 ELSE now) :
         /\ (n2 # now) => (CmdName(cmd) = "nextSplit" /\ NextSplitActs(ts))
         /\ now' = n2
         /\ IF handleCommandPanics(ts, cmd)
              THEN /\ ts' = NextSplitBestSegment(ts, now, n2)
                   /\ panicked' = TRUE
                   /\ UNCHANGED <<clients, send, closed, blocked, watched, wlog, wrecv>>
              ELSE /\ ts' = handleCommand(ts, cmd, now, n2)
                   /\ Broadcast(ToJSON(ts'))
    /\ lastEvent' = [kind |-> "command", cmd |-> CmdName(cmd), client |-> "",
                     dropped |-> clients \ clients',
                     arg |-> CmdArg(cmd)]
    /\ Elapse

\* A decode failure that is logged and then falls through to the broadcast.
MutBadFrameBroadcasts ==
    /\ ~panicked /\ blocked = ""
    /\ MayBroadcast
    /\ Broadcast(ToJSON(ts))
    /\ lastEvent' = [kind |-> "badframe", cmd |-> "", client |-> "",
                     dropped |-> clients \ clients', arg |-> Absent]
    /\ UNCHANGED <<now, ts, ranFor>>

\* case message := <-h.broadcast, json.Unmarshal failing: logged and skipped.
BadFrame ==
    /\ ~panicked /\ blocked = ""
    /\ lastEvent' = [kind |-> "badframe", cmd |-> "", client |-> "", dropped |-> {}, arg |-> Absent]
    /\ UNCHANGED <<now, ts, clients, send, closed, panicked, blocked, watched, wlog,
                   wrecv, ranFor>>

\* case message := <-h.broadcast, the frame being the JSON value null:
\* json.Unmarshal reports no error and leaves cmd a nil map, handleCommand
\* finds no "command" in it and matches no case, then broadcastState.
NullFrame ==
    /\ ~panicked /\ blocked = ""
    /\ MayBroadcast
    /\ Broadcast(ToJSON(ts))
    /\ lastEvent' = [kind |-> "nullframe", cmd |-> "", client |-> "",
                     dropped |-> clients \ clients', arg |-> Absent]
    /\ UNCHANGED <<now, ts, ranFor>>

\* A tick case that broadcasts whatever the status.
MutTickAlwaysBroadcasts ==
    /\ ~panicked /\ blocked = ""
    /\ MayBroadcast
    /\ ts' = Update(ts, now)
    /\ Broadcast(ToJSON(ts'))
    /\ lastEvent' = [kind |-> "tick", cmd |-> "", client |-> "",
                     dropped |-> clients \ clients', arg |-> Absent]
    /\ UNCHANGED now
    /\ Elapse

\* case <-ticker.C
Tick ==
    /\ ~panicked /\ blocked = ""
    /\ MayBroadcast
    /\ ts' = Update(ts, now)
    /\ IF ts'.Status = "running"
         THEN Broadcast(ToJSON(ts'))
         ELSE UNCHANGED <<clients, send, closed, panicked, blocked, watched, wlog, wrecv>>
    /\ lastEvent' = [kind |-> "tick", cmd |-> "", client |-> "",
                     dropped |-> clients \ clients', arg |-> Absent]
    /\ UNCHANGED now
    /\ Elapse

\* Time passes between two events of the loop.
Advance ==
    /\ ~panicked
    /\ now < MaxTime
    /\ now' = now + 1
    /\ UNCHANGED <<ts, clients, send, closed, panicked, blocked, lastEvent, watched,
                   wlog, wrecv>>
    /\ Elapse

\* The client's writePump takes the next message off client.send; a send of
\* the Hub parked on that channel then completes.
Drain(c) ==
    /\ ~panicked
    /\ send[c] # << >>
    /\ IF blocked = c
         THEN /\ send' = [send EXCEPT ![c] = Append(Tail(@), ToJSON(ts))]
              /\ blocked' = ""
              /\ wrecv' = IF c = watched THEN Append(wrecv, ToJSON(ts)) ELSE wrecv
         ELSE /\ send' = [send EXCEPT ![c] = Tail(@)]
              /\ UNCHANGED <<blocked, wrecv>>
    /\ UNCHANGED <<now, ts, clients, closed, panicked, lastEvent, watched, wlog, ranFor>>

\* ----------------------------------------------------------------- inputs

Cmd(name) == [command |-> JStr(name)]

LayoutNames == <<"A", "B", "C", "D", "E">>

\* The raw `splits` array naming k splits from the s-th name on.
RawSplits(s, k) == [i \in 1..k |-> JObj([name |-> JStr(LayoutNames[s + i - 1])])]

SetSplitsCmds ==
    { [command |-> JStr("setSplits"), splits |-> JArr(RawSplits(1, k)),
       title |-> JStr("Any%")] : k \in 0..MaxSplits }

RestoreCmds ==
    { [command |-> JStr("restorePBData"),
       bestSplitTimes |-> JArr(<<JNum(3), JStr("x")>>),
       personalBest |-> JNum(2), sumOfBest |-> JNum(6)] }

WorldRecordCmds ==
    { [command |-> JStr("setWorldRecord"), worldRecord |-> v] :
        v \in {JNum(0), JNum(3)} }

\* Decoded frames no case of handleCommand's switch matches: an object with
\* no "command", one whose "command" is not a string, and one whose "command"
\* differs from a case by a capital letter.
UnknownCmds ==
    { [title |-> JStr("Any%")], [command |-> JNum(2)], Cmd("Start") }

\* The decoded frames of the timer runs.
TimerCmds ==
    {Cmd("start"), Cmd("pause"), Cmd("reset"), Cmd("nextSplit")}
    \cup SetSplitsCmds \cup RestoreCmds

\* The decoded frames of the tick runs.
HubCmds == {Cmd("start"), Cmd("pause")}

\* --------------------------------------------------------- specifications

\* The timer under the Hub's loop, no observer connected.
NextTimer ==
    \/ \E cmd \in TimerCmds : Command(cmd)
    \/ Tick
    \/ Advance

\* The observers are alike: the one whose record is kept is fixed.
InitTimer == Init /\ watched = "c1"

Spec == InitTimer /\ [][NextTimer]_vars

\* The Hub with its observers, under start, frames that do not decode to a
\* command and ticks.
NextHub ==
    \/ \E c \in Clients : Register(c)
    \/ \E c \in Clients : Unregister(c)
    \/ \E c \in Clients : Drain(c)
    \/ Command(Cmd("start"))
    \/ BadFrame
    \/ NullFrame
    \/ Tick

SpecHub == InitTimer /\ [][NextHub]_vars

\* The decoded frames of the world-record runs.
RecordCmds ==
    {Cmd("start"), Cmd("pause")} \cup WorldRecordCmds

\* The timer with one observer, under start, pause and world-record
\* commands, the clock moving between the events.
NextRecord ==
    \/ Register("c1")
    \/ Drain("c1")
    \/ \E cmd \in RecordCmds : Command(cmd)
    \/ Advance

SpecRecord == InitTimer /\ [][NextRecord]_vars

\* The clients of the tick runs.
TickClients == {"c1", "c2"}

\* The Hub with two observers under start, pause and ticks, the clock moving
\* between the events.
NextTick ==
    \/ \E c \in TickClients : Register(c)
    \/ \E c \in TickClients : Unregister(c)
    \/ \E c \in TickClients : Drain(c)
    \/ \E cmd \in HubCmds : Command(cmd)
    \/ Tick
    \/ Advance

SpecTick == InitTimer /\ [][NextTick]_vars

\* The decoded frames of the runs with unknown commands.
UnknownRunCmds ==
    {Cmd("start"), Cmd("pause"), Cmd("nextSplit")}
    \cup {cmd \in SetSplitsCmds : Len(cmd.splits.a) = MaxSplits}
    \cup UnknownCmds

\* The timer under the commands of a run and frames no case matches, no
\* observer connected.
NextUnknown ==
    \/ \E cmd \in UnknownRunCmds : Command(cmd)
    \/ Advance

SpecUnknown == InitTimer /\ [][NextUnknown]_vars

\* The decoded frames of the runs over one layout.
RunCmds ==
    {Cmd("start"), Cmd("pause"), Cmd("reset"), Cmd("nextSplit")}
    \cup {cmd \in SetSplitsCmds : Len(cmd.splits.a) = MaxSplits}

\* The timer under the commands of a run over a layout of MaxSplits splits
\* and ticks, the clock moving between the events, no observer connected.
NextRun ==
    \/ \E cmd \in RunCmds : Command(cmd)
    \/ Tick
    \/ Advance

SpecRun == InitTimer /\ [][NextRun]_vars

\* restorePBData frames: every field present with the expected type; every
\* field present with another type; no field at all; arrays with entries
\* that are not numbers, and a negative number; one array alone, shorter
\* than the layout.
RestorePayloads ==
    { [command |-> JStr("restorePBData"),
       bestSplitTimes |-> JArr(<<JNum(2), JNum(2)>>),
       bestCumulativeTimes |-> JArr(<<JNum(2), JNum(4)>>),
       personalBest |-> JNum(4), sumOfBest |-> JNum(4),
       pbSplitTimes |-> JArr(<<JNum(2), JNum(4)>>),
       worldRecord |-> JNum(3)],
      [command |-> JStr("restorePBData"),
       bestSplitTimes |-> JStr("x"),
       bestCumulativeTimes |-> JNum(2),
       personalBest |-> JStr("2"), sumOfBest |-> JArr(<<JNum(2)>>),
       pbSplitTimes |-> JObj([name |-> JStr("A")]),
       worldRecord |-> JStr("1")],
      [command |-> JStr("restorePBData")],
      [command |-> JStr("restorePBData"),
       bestCumulativeTimes |-> JArr(<<JStr("x"), JNum(-3)>>),
       pbSplitTimes |-> JArr(<<JNum(2), JObj([name |-> JStr("A")])>>)],
      [command |-> JStr("restorePBData"),
       bestSplitTimes |-> JArr(<<JNum(4)>>)] }

\* The decoded frames of the restore runs.
RestoreRunCmds ==
    {Cmd("start"), Cmd("reset"), Cmd("nextSplit")}
    \cup {cmd \in SetSplitsCmds : Len(cmd.splits.a) = MaxSplits}
    \cup RestorePayloads

\* The timer under imported best-time data of every shape, no observer
\* connected.
NextRestore ==
    \/ \E cmd \in RestoreRunCmds : Command(cmd)
    \/ Advance

SpecRestore == InitTimer /\ [][NextRestore]_vars

\* The decoded frames of the observed runs.
ObservedCmds ==
    {Cmd("start"), Cmd("nextSplit")}
    \cup {cmd \in SetSplitsCmds : Len(cmd.splits.a) = MaxSplits}
    \cup RestoreCmds

\* The timer with one observer, under the commands of a run and the
\* restoring of imported data; the clock moves only between the two readings
\* of a NextSplit.
NextObserved ==
    \/ Register("c1")
    \/ Drain("c1")
    \/ \E cmd \in ObservedCmds : Command(cmd)

SpecObserved == InitTimer /\ [][NextObserved]_vars

\* ----------------------------------------------------------- step shapes

\* A step of the environment, in which the loop handled no event: the clock
\* moved (Advance), or a writePump took a message off its queue (Drain).
EnvStep ==
    \/ now' # now
         /\ UNCHANGED <<ts, clients, send, closed, panicked, lastEvent, wlog, wrecv>>
    \/ \E c \in Clients :
         /\ send[c] # << >>
         /\ send' = [send EXCEPT ![c] = Tail(@)]
         /\ UNCHANGED <<now, ts, clients, closed, panicked, lastEvent, wlog, wrecv>>

\* A step in which the loop handled the decoded command called name.
CommandStep(name) ==
    /\ lastEvent'.kind = "command"
    /\ lastEvent'.cmd = name
    /\ ~EnvStep

\* --------------------------------------------------------- timer claims

\* C4: no sequence of well-formed commands and ticks drives the Hub into a
\* fatal error; NextSplit never indexes a best-time array out of range.
C4_NoFatalError == ~panicked

\* C5: in every reachable state the three best-time arrays are as long as
\* the predefined split list.
C5_ParallelArrays ==
    /\ Len(ts.BestSplitTimes) = Len(ts.PredefinedSplits)
    /\ Len(ts.BestCumulativeTimes) = Len(ts.PredefinedSplits)
    /\ Len(ts.PBSplitTimes) = Len(ts.PredefinedSplits)

\* C6: in every reachable state the split history is no longer than the
\* predefined split list.
C6_SplitsWithinLayout == Len(ts.Splits) <= Len(ts.PredefinedSplits)

\* C7: a start command applied while Stopped leaves the split history empty.
C7_StartClearsSplits ==
    [][(CommandStep("start") /\ ts.Status = "stopped") => ts'.Splits = << >>]_vars

\* C8: in every reachable state SumOfBest is the sum of BestSplitTimes.
C8_SumOfBestIsSum == ts.SumOfBest = SumSeq(ts.BestSplitTimes)

\* A nextSplit command that completed the final predefined split.
FinalSplitStep ==
    /\ CommandStep("nextSplit")
    /\ ~panicked'
    /\ NextSplitActs(ts)
    /\ ts.CurrentSplitIndex = Len(ts.PredefinedSplits) - 1

\* The total time of the run a FinalSplitStep completed: the cumulative time
\* of the split it recorded.
RunTime(t) == t.Splits[Len(t.Splits)].CumulativeTime

\* C9: when NextSplit completes the final split with total time T, the
\* personal best becomes T if it was zero or T is strictly lower than it,
\* and is left as it was otherwise.
C9_PersonalBestRule ==
    [][FinalSplitStep =>
         ts'.PersonalBest =
            IF ts.PersonalBest = 0 \/ RunTime(ts') < ts.PersonalBest
              THEN RunTime(ts') ELSE ts.PersonalBest]_vars

\* A run has just been completed slower than a personal best that was set,
\* which was left alone.
C9_Witness ==
    /\ lastEvent.kind = "command" /\ lastEvent.cmd = "nextSplit"
    /\ ts.Status = "stopped"
    /\ ts.Splits # << >>
    /\ ts.PersonalBest # 0
    /\ RunTime(ts) > ts.PersonalBest

\* C10: Reset yields Stopped, zero elapsed time, no splits and index -1,
\* and leaves the best-time, personal-best, world-record and layout data.
C10_ResetFrame ==
    [][CommandStep("reset") =>
         /\ ts'.Status = "stopped"
         /\ ts'.CurrentTime = 0
         /\ ts'.Splits = << >>
         /\ ts'.CurrentSplitIndex = -1
         /\ ts'.PersonalBest = ts.PersonalBest
         /\ ts'.BestSplitTimes = ts.BestSplitTimes
         /\ ts'.BestCumulativeTimes = ts.BestCumulativeTimes
         /\ ts'.PBSplitTimes = ts.PBSplitTimes
         /\ ts'.SumOfBest = ts.SumOfBest
         /\ ts'.WorldRecord = ts.WorldRecord
         /\ ts'.PredefinedSplits = ts.PredefinedSplits
         /\ ts'.TimerTitle = ts.TimerTitle]_vars

\* Reset has just been handled in a state that holds best-time data, a
\* personal best, a world record and a layout.
C10_Witness ==
    /\ lastEvent.kind = "command" /\ lastEvent.cmd = "reset"
    /\ ts.Status = "stopped" /\ ts.Splits = << >> /\ ts.CurrentTime = 0
    /\ ts.PersonalBest # 0
    /\ ts.WorldRecord # 0
    /\ ts.SumOfBest # 0
    /\ ts.PredefinedSplits # << >>
    /\ \E i \in DOMAIN ts.BestSplitTimes : ts.BestSplitTimes[i] # 0
    /\ \E i \in DOMAIN ts.BestCumulativeTimes : ts.BestCumulativeTimes[i] # 0

\* ----------------------------------------------------------- hub claims

\* A step in which the loop called broadcastState: a decoded command (the
\* frame null among them), or a tick that left the timer Running.
BroadcastStep ==
    /\ ~EnvStep
    /\ ~panicked'
    /\ \/ lastEvent'.kind = "command"
       \/ lastEvent'.kind = "nullframe"
       \/ lastEvent'.kind = "tick" /\ ts'.Status = "running"

\* The registered clients whose queue is full.
Saturated == {c \in clients : Len(send[c]) = SendCap}

\* C1: in a broadcast every registered observer whose queue has room gets
\* the snapshot appended, and every registered observer whose queue is full
\* has it closed and leaves the registry in that same step; with 3 observers,
\* one of them saturated, a start leaves 2 observers holding the snapshot.
C1_FanOut ==
    [][BroadcastStep =>
         /\ \A c \in clients :
              IF Len(send[c]) < SendCap
                THEN /\ c \in clients'
                     /\ ~closed'[c]
                     /\ send'[c] = Append(send[c], ToJSON(ts'))
                ELSE /\ c \notin clients'
                     /\ closed'[c]
                     /\ send'[c] = send[c]
         /\ (CommandStep("start") /\ Cardinality(clients) = 3
                /\ Cardinality(Saturated) = 1)
              => /\ Cardinality(clients') = 2
                 /\ clients' = clients \ Saturated
                 /\ Cardinality({c \in Clients :
                        send'[c] = Append(send[c], ToJSON(ts'))}) = 2]_vars

\* A start has just dropped one saturated observer out of three, and the two
\* that stay hold the snapshot of the started timer.
C1_Witness ==
    /\ lastEvent.kind = "command" /\ lastEvent.cmd = "start"
    /\ Cardinality(lastEvent.dropped) = 1
    /\ Cardinality(clients) = 2
    /\ ts.Status = "running"
    /\ \A c \in clients : send[c][Len(send[c])] = ToJSON(ts)
    /\ \A c \in lastEvent.dropped :
          /\ closed[c]
          /\ Len(send[c]) = SendCap
          /\ send[c][Len(send[c])] # ToJSON(ts)

\* C2: the messages placed in an observer's queue are exactly the snapshot
\* of its registration followed by the snapshot of every broadcast made
\* while it stayed registered, in order; every command and every tick while
\* Running is such a broadcast; once removed it is placed nothing more.
C2_NoGaps ==
    /\ [](wrecv = wlog)
    /\ [][(BroadcastStep /\ watched \in clients /\ watched \in clients')
            => wlog' = Append(wlog, ToJSON(ts'))]_vars
    /\ [][(watched \notin clients /\ wrecv # << >>)
            => (watched \notin clients' /\ wrecv' = wrecv)]_vars

\* The watched observer received its registration snapshot and a broadcast,
\* and the last broadcast has dropped it.
C2_Witness ==
    /\ lastEvent.kind # "unregister"
    /\ watched \in lastEvent.dropped
    /\ Len(wrecv) >= 2
    /\ wrecv = wlog
    /\ wrecv[1] # wrecv[2]

\* C3: handling Register(c) adds c to the registry and places exactly one
\* snapshot, of the TimerState as it is, in c's queue, as its first message,
\* within that one step.
C3_RegisterSnapshot ==
    [][\A c \in Clients :
         (lastEvent'.kind = "register" /\ lastEvent'.client = c /\ ~EnvStep)
           => /\ clients' = clients \cup {c}
              /\ send'[c] = <<ToJSON(ts)>>
              /\ ts' = ts
              /\ \A d \in Clients \ {c} : send'[d] = send[d]]_vars

\* An observer has just been registered while the timer was not in its
\* initial state, and holds that state as its only message.
C3_Witness ==
    /\ lastEvent.kind = "register"
    /\ lastEvent.client \in clients
    /\ send[lastEvent.client] = <<ToJSON(ts)>>
    /\ ts.Status = "running"

\* ------------------------------------------------- layout and index claims

\* C11: a setSplits whose list differs in length from the current predefined
\* list leaves the three best-time arrays of the new length and all zero; one
\* of the same length leaves them as they were.
C11_SetSplitsResize ==
    [][CommandStep("setSplits") =>
         IF Len(ts'.PredefinedSplits) # Len(ts.PredefinedSplits)
           THEN /\ ts'.BestSplitTimes = Zeros(Len(ts'.PredefinedSplits))
                /\ ts'.BestCumulativeTimes = Zeros(Len(ts'.PredefinedSplits))
                /\ ts'.PBSplitTimes = Zeros(Len(ts'.PredefinedSplits))
           ELSE /\ ts'.BestSplitTimes = ts.BestSplitTimes
                /\ ts'.BestCumulativeTimes = ts.BestCumulativeTimes
                /\ ts'.PBSplitTimes = ts.PBSplitTimes]_vars

C13_IndexInRange ==
    \/ ts.CurrentSplitIndex = -1
    \/ /\ 0 <= ts.CurrentSplitIndex
       /\ ts.CurrentSplitIndex < Len(ts.PredefinedSplits)

\* The predefined list has just been replaced during a run by one shorter
\* than the split history, and no split is in progress.
C13_Witness ==
    /\ lastEvent.kind = "command" /\ lastEvent.cmd = "setSplits"
    /\ ts.Status = "running"
    /\ Len(ts.Splits) > Len(ts.PredefinedSplits)
    /\ ts.CurrentSplitIndex = -1

\* ------------------------------------------------- start and pause claims

\* C14: while Running, the elapsed time (the time since the anchor, which a
\* tick stores in CurrentTime) is the clock time that passed while Running
\* since the run started, time spent Paused left out; and a start applied
\* while Running changes nothing.
C14_ElapsedIsRunningTime ==
    /\ [](ts.Status = "running" => now - ts.StartTime = ranFor)
    /\ [][(lastEvent'.kind = "tick" /\ ~EnvStep /\ ts'.Status = "running")
            => ts'.CurrentTime = ranFor']_vars
    /\ [][(CommandStep("start") /\ ts.Status = "running") => ts' = ts]_vars

\* A tick has just shown an elapsed time of 1 at clock 2, in a run that was
\* paused at elapsed time 1 and resumed.
C14_Witness ==
    /\ lastEvent.kind = "tick"
    /\ ts.Status = "running"
    /\ ts.PausedAt = 1
    /\ now = 2
    /\ ts.CurrentTime = 1
    /\ ranFor = 1

\* C15: a pause applied while Paused is a no-op: the status stays Paused and
\* the time anchors are unchanged.
C15_PauseWhilePausedNoOp ==
    [][(CommandStep("pause") /\ ts.Status = "paused")
         => /\ ts'.Status = "paused"
            /\ ts'.StartTime = ts.StartTime
            /\ ts'.PausedAt = ts.PausedAt]_vars

\* C15 as the code has it: a pause applied while Paused resumes the run: the
\* status becomes Running, the start anchor is moved to the present instant
\* less the elapsed time captured at the pause, and nothing else changes.
C15_PauseWhilePausedResumes ==
    [][(CommandStep("pause") /\ ts.Status = "paused")
         => ts' = [ts EXCEPT !.Status = "running",
                             !.StartTime = now - ts.PausedAt]]_vars

\* A pause command has just resumed, at clock 2, a run paused at elapsed
\* time 1.
C15_Witness ==
    /\ lastEvent.kind = "command" /\ lastEvent.cmd = "pause"
    /\ ts.Status = "running"
    /\ ts.PausedAt = 1
    /\ ts.StartTime = 1
    /\ now = 2

\* C16: pause toggles: from Running it yields Paused with the elapsed time
\* captured; from Paused it yields Running with the elapsed time continuing
\* from the captured value, nothing lost and nothing counted twice; from
\* Stopped it changes nothing.
C16_PauseToggles ==
    [][CommandStep("pause") =>
         /\ ts.Status = "running" =>
              /\ ts'.Status = "paused"
              /\ ts'.PausedAt = now - ts.StartTime
              /\ ts'.PausedAt = ranFor
         /\ ts.Status = "paused" =>
              /\ ts'.Status = "running"
              /\ now' - ts'.StartTime = ts.PausedAt
              /\ now' - ts'.StartTime = ranFor
         /\ ts.Status = "stopped" => ts' = ts]_vars

\* A run has been paused at elapsed time 1 and the clock has moved on since.
C16_Witness ==
    /\ lastEvent.kind = "command" /\ lastEvent.cmd = "pause"
    /\ ts.Status = "paused"
    /\ ts.PausedAt = 1
    /\ ranFor = 1
    /\ now - ts.StartTime > ts.PausedAt

\* ------------------------------------------------------- split claims

\* A nextSplit command that recorded a split.
NextSplitStep ==
    /\ CommandStep("nextSplit")
    /\ ~panicked'
    /\ NextSplitActs(ts)

\* The sum of segmentTime over the split history.
SumSegments(t) == SumSeq([k \in 1..Len(t.Splits) |-> t.Splits[k].SegmentTime])

\* By how much the last cumulative time exceeds the sum of the segments.
Lag(t) == (IF t.Splits = << >> THEN 0 ELSE RunTime(t)) - SumSegments(t)

CleanSplitStep ==
    /\ NextSplitStep
    /\ Len(ts.Splits) = ts.CurrentSplitIndex

\* The cumulative time of the last split recorded in t, 0 when there is none.
LastCumulative(t) == IF t.Splits = << >> THEN 0 ELSE RunTime(t)

\* What C18 says of a start from Stopped with a layout, and of NextSplit's
\* effect on the index, the status and the personal best; seg is the segment
\* time it says the recorded split has.
RunScenario(seg) ==
    /\ (CommandStep("start") /\ ts.Status = "stopped" /\ ts.PredefinedSplits # << >>)
         => /\ ts'.Status = "running"
            /\ ts'.CurrentSplitIndex = 0
    /\ CleanSplitStep =>
         LET i  == ts.CurrentSplitIndex + 1
             ti == now' - ts.StartTime
         IN  /\ Len(ts'.Splits) = i
             /\ ts'.Splits[i].Name = ts.PredefinedSplits[i].Name
             /\ ts'.Splits[i].CumulativeTime = ti
             /\ ts'.CurrentTime = ti
             /\ ts'.Splits[i].SegmentTime = seg
             /\ i < Len(ts.PredefinedSplits) =>
                  /\ ts'.Status = "running"
                  /\ ts'.CurrentSplitIndex = i
             /\ i = Len(ts.PredefinedSplits) =>
                  /\ ts'.Status = "stopped"
                  /\ ts'.CurrentSplitIndex = -1
                  /\ ts.PersonalBest = 0 => ts'.PersonalBest = ti

\* C18: with N >= 1 predefined splits, Start from Stopped gives Running and
\* index 0; the i-th NextSplit, at elapsed time t_i, records a split named
\* after the i-th predefined split with cumulative time t_i and segment time
\* t_i - t_(i-1), and moves the index to the next split, or after the N-th
\* stops with index -1 and, the personal best being unset, personal best t_N.
C18_RunScenario ==
    [][RunScenario((now' - ts.StartTime) - LastCumulative(ts))]_vars

\* C18 as the code has it: the segment time is the elapsed time at the
\* call's first reading of the clock, less t_(i-1); t_i is the elapsed time
\* at its second reading.
C18_RunScenarioFirstReading ==
    [][RunScenario((now - ts.StartTime) - LastCumulative(ts))]_vars

\* The run [A, B] with splits at 1 and 2 has just been completed: segments 1
\* and 1, personal best 2.
C18_Witness ==
    /\ lastEvent.kind = "command" /\ lastEvent.cmd = "nextSplit"
    /\ ts.Status = "stopped"
    /\ ts.CurrentSplitIndex = -1
    /\ Len(ts.Splits) = 2
    /\ ts.Splits[1].Name = "A" /\ ts.Splits[2].Name = "B"
    /\ ts.Splits[1].CumulativeTime = 1 /\ ts.Splits[2].CumulativeTime = 2
    /\ ts.Splits[1].SegmentTime = 1 /\ ts.Splits[2].SegmentTime = 1
    /\ ts.PersonalBest = 2

\* C19: after a NextSplit call that recorded a split, SumOfBest is the sum
\* of BestSplitTimes.
C19_SumOfBestAfterNextSplit ==
    [][NextSplitStep => ts'.SumOfBest = SumSeq(ts'.BestSplitTimes)]_vars

\* --------------------------------------------------- world record claims

\* A setWorldRecord command carrying a number was handled.
WorldRecordStep ==
    /\ CommandStep("setWorldRecord")
    /\ lastEvent'.arg.k = "num"

\* The observers a step left registered got one more message, the snapshot
\* of the new state.
SnapshotSent ==
    \A c \in clients \cap clients' :
        send'[c] = Append(send[c], ToJSON(ts'))

\* C20: a setWorldRecord carrying a number overwrites WorldRecord with
\* exactly that value (the number is a count of halves), 0 included, the
\* snapshot broadcast shows it, and no other field changes.
C20_WorldRecordExact ==
    [][WorldRecordStep =>
         /\ 2 * ts'.WorldRecord = lastEvent'.arg.h
         /\ ts' = [ts EXCEPT !.WorldRecord = ts'.WorldRecord]
         /\ SnapshotSent
         /\ 2 * ToJSON(ts').worldRecord = lastEvent'.arg.h]_vars

\* C20 as the code has it: WorldRecord becomes the number cut to a whole
\* duration (toward zero), so a whole number, 0 included, is stored as it
\* is; the snapshot broadcast shows the stored value; no other field changes.
C20_WorldRecordTruncated ==
    [][WorldRecordStep =>
         /\ 2 * ts'.WorldRecord <= lastEvent'.arg.h
         /\ lastEvent'.arg.h < 2 * ts'.WorldRecord + 2
         /\ ts' = [ts EXCEPT !.WorldRecord = ts'.WorldRecord]
         /\ SnapshotSent
         /\ ToJSON(ts').worldRecord = ts'.WorldRecord]_vars

\* A setWorldRecord of 0 has just cleared a record: the observer's last two
\* messages show the record set, then 0.
C20_Witness ==
    /\ lastEvent.kind = "command" /\ lastEvent.cmd = "setWorldRecord"
    /\ lastEvent.arg = JNum(0)
    /\ ts.WorldRecord = 0
    /\ watched \in clients
    /\ Len(wrecv) >= 2
    /\ wrecv[Len(wrecv)].worldRecord = 0
    /\ wrecv[Len(wrecv) - 1].worldRecord = 1

\* ------------------------------------------------- ignored input claims

\* C21: a nextSplit applied when the status is not Running, or when the
\* current split index is -1 or not below the length of the predefined list,
\* leaves every TimerState field as it was and raises no error.
C21_NextSplitIgnored ==
    [][(/\ CommandStep("nextSplit")
        /\ \/ ts.Status # "running"
           \/ ts.CurrentSplitIndex < 0
           \/ ts.CurrentSplitIndex >= Len(ts.PredefinedSplits))
         => (ts' = ts /\ ~panicked')]_vars

\* A nextSplit has just been handled while Paused in a run whose first split
\* was in progress: no split was recorded and the index stayed.
C21_Witness ==
    /\ lastEvent.kind = "command" /\ lastEvent.cmd = "nextSplit"
    /\ ts.Status = "paused"
    /\ ts.CurrentSplitIndex = 0
    /\ ts.PredefinedSplits # << >>
    /\ ts.Splits = << >>
    /\ ~panicked

\* C22: an inbound frame that is not a JSON object changes no TimerState
\* field, queues no message to any observer and changes no registration; the
\* loop stays alive for the events that follow.
C22_NonObjectFrameIgnored ==
    [][(lastEvent'.kind \in {"badframe", "nullframe"} /\ ~EnvStep)
         => /\ UNCHANGED <<ts, clients, send, closed, now>>
            /\ ~panicked']_vars

\* C22 as the code has it: a frame on which decoding reports an error changes
\* no TimerState field, queues no message and changes no registration; the
\* frame null decodes without error to a command with no fields, which
\* changes no TimerState field and is followed by a broadcast of the
\* snapshot; in both cases the loop stays alive.
C22_BadFrameIgnored ==
    /\ [][(lastEvent'.kind = "badframe" /\ ~EnvStep)
            => /\ UNCHANGED <<ts, clients, send, closed, now>>
               /\ ~panicked']_vars
    /\ [][(lastEvent'.kind = "nullframe" /\ ~EnvStep)
            => /\ UNCHANGED <<ts, now>>
               /\ ~panicked'
               /\ \A c \in clients :
                    IF Len(send[c]) < SendCap
                      THEN c \in clients' /\ send'[c] = Append(send[c], ToJSON(ts))
                      ELSE c \notin clients' /\ send'[c] = send[c]]_vars

\* A frame that did not decode has just been discarded while the timer was
\* Running with two observers registered, one of them with a full queue.
C22_Witness ==
    /\ lastEvent.kind = "badframe"
    /\ ts.Status = "running"
    /\ Cardinality(clients) >= 2
    /\ Saturated # {}
    /\ ~panicked

\* The strings the cases of handleCommand's switch compare cmd["command"] to.
KnownCommands ==
    {"start", "pause", "reset", "setSplits", "nextSplit", "restorePBData",
     "setWorldRecord"}

\* C23: a decoded command whose "command" is missing or is none of the seven
\* known names leaves every TimerState field as it was.
C23_UnknownCommandIgnored ==
    [][(/\ lastEvent'.kind = "command"
        /\ ~EnvStep
        /\ lastEvent'.cmd \notin KnownCommands)
         => (ts' = ts /\ ~panicked')]_vars

\* The command "Start" has just been handled while Paused in a run that had
\* recorded a split: the timer is still Paused.
C23_Witness ==
    /\ lastEvent.kind = "command" /\ lastEvent.cmd = "Start"
    /\ ts.Status = "paused"
    /\ ts.Splits # << >>
    /\ ts.CurrentSplitIndex >= 0

\* ------------------------------------------------------ unregister claims

\* C24: handling Unregister for an observer that is not in the registry
\* changes neither the registry, nor any queue, nor the TimerState; handling
\* it for a registered observer removes it and closes its queue, and leaves
\* the rest as it was.
C24_UnregisterIdempotent ==
    [][\A c \in Clients :
         (lastEvent'.kind = "unregister" /\ lastEvent'.client = c /\ ~EnvStep)
           => /\ IF c \in clients
                   THEN /\ clients' = clients \ {c}
                        /\ closed' = [closed EXCEPT ![c] = TRUE]
                   ELSE UNCHANGED <<clients, closed>>
              /\ c \notin clients'
              /\ UNCHANGED <<ts, send, now>>
              /\ ~panicked']_vars

\* Unregister has just been handled for an observer that was already gone,
\* its queue full and closed, while others are registered.
C24_Witness ==
    /\ lastEvent.kind = "unregister"
    /\ lastEvent.dropped = {}
    /\ lastEvent.client \notin clients
    /\ closed[lastEvent.client]
    /\ Len(send[lastEvent.client]) = SendCap
    /\ clients # {}
    /\ ~panicked

\* Queue a is the head of queue b.
IsPrefix(a, b) == Len(a) <= Len(b) /\ SubSeq(b, 1, Len(a)) = a

\* The TimerState a loop step yields from ts, the event it handled and the
\* clock alone: what handleCommand or Update computes, the observers apart.
TimerResult ==
    IF lastEvent'.kind = "command"
      THEN \E cmd \in HubCmds :
              /\ CmdName(cmd) = lastEvent'.cmd
              /\ ts' = handleCommand(ts, cmd, now, now')
      ELSE IF lastEvent'.kind = "tick"
        THEN ts' = Update(ts, now)
        ELSE ts' = ts

\* C25: a step that removes observers, through Unregister or through the
\* eviction of a broadcast, yields the TimerState it would yield anyhow (an
\* Unregister leaves it as it was); it removes an observer only for that
\* observer's own Unregister or own full queue; every other observer keeps
\* its registration status and its channel state, and the messages its queue
\* held stay at its head in their order.
C25_FailuresLocal ==
    [][(~EnvStep /\ ~panicked' /\ clients \ clients' # {}) =>
         /\ TimerResult
         /\ lastEvent'.kind = "unregister" => ts' = ts
         /\ \A d \in clients \ clients' :
              IF lastEvent'.kind = "unregister"
                THEN d = lastEvent'.client
                ELSE Len(send[d]) = SendCap
         /\ \A d \in Clients \ (clients \ clients') :
              /\ (d \in clients') = (d \in clients)
              /\ closed'[d] = closed[d]
              /\ IsPrefix(send[d], send'[d])]_vars

\* A start has just evicted a saturated observer while another observer,
\* which held a message already, stayed registered and got the snapshot of
\* the started timer behind it.
C25_Witness ==
    /\ lastEvent.kind = "command" /\ lastEvent.cmd = "start"
    /\ lastEvent.dropped # {}
    /\ ts.Status = "running"
    /\ \E d \in clients :
          /\ Len(send[d]) >= 2
          /\ ~closed[d]
          /\ send[d][Len(send[d])] = ToJSON(ts)
          /\ send[d][1] # ToJSON(ts)

\* ------------------------------------------------------------ tick claims

\* C26: a tick handled while Running places the snapshot taken after the
\* tick's update, once, in the queue of every registered observer that has
\* room (one whose queue is full is evicted); a tick handled while Stopped or
\* Paused places no message in any queue and changes no registration.
C26_TickBroadcastPolicy ==
    [][(lastEvent'.kind = "tick" /\ ~EnvStep) =>
         /\ ts' = Update(ts, now)
         /\ IF ts.Status = "running"
              THEN /\ \A c \in clients :
                        IF Len(send[c]) < SendCap
                          THEN /\ c \in clients'
                               /\ send'[c] = Append(send[c], ToJSON(ts'))
                          ELSE /\ c \notin clients'
                               /\ send'[c] = send[c]
                   /\ \A c \in Clients \ clients :
                        send'[c] = send[c] /\ c \notin clients'
              ELSE UNCHANGED <<clients, send, closed>>]_vars

\* A tick has just been handled while Running: an observer's newest message
\* is the snapshot with the elapsed time the tick computed, which the message
\* before it did not show.
C26_Witness ==
    /\ lastEvent.kind = "tick"
    /\ ts.Status = "running"
    /\ ts.CurrentTime >= 1
    /\ \E c \in clients :
          /\ Len(send[c]) >= 2
          /\ send[c][Len(send[c])] = ToJSON(ts)
          /\ send[c][Len(send[c]) - 1].currentTime # ts.CurrentTime

\* ------------------------------------------------------- ordering claims

\* C27: every decoded command is applied whole, by the one operation it
\* names, and followed within the same step of the loop by one broadcast:
\* every registered observer with room gets the same snapshot, that of the
\* TimerState right after the command.
C27_CommandThenBroadcast ==
    [][(lastEvent'.kind = "command" /\ ~EnvStep) =>
         /\ ~panicked'
         /\ \E cmd \in TimerCmds :
              /\ CmdName(cmd) = lastEvent'.cmd
              /\ ts' = handleCommand(ts, cmd, now, now')
         /\ \A c \in clients :
              IF Len(send[c]) < SendCap
                THEN c \in clients' /\ send'[c] = Append(send[c], ToJSON(ts'))
                ELSE c \notin clients' /\ send'[c] = send[c]
         /\ \A c \in Clients \ clients : send'[c] = send[c]]_vars

\* ------------------------------------------------------- blocking claims

\* C28: whatever the observers' queues hold, the Hub goroutine is never
\* parked in a channel send: every register, unregister, command and tick is
\* handled to its end and the loop is back at its select.
C28_NeverBlocks == blocked = ""

\* A registration has just been handled to its end while one registered
\* observer sits on a full queue and another was evicted with its queue full
\* and never drained.
C28_Witness ==
    /\ lastEvent.kind = "register"
    /\ lastEvent.client \in clients
    /\ send[lastEvent.client] = <<ToJSON(ts)>>
    /\ Saturated # {}
    /\ \E c \in Clients \ clients : closed[c] /\ Len(send[c]) = SendCap
    /\ blocked = ""
    /\ ~panicked

\* --------------------------------------------------- single-writer claims

\* C29: the TimerState changes only in a step in which the loop handles a
\* command or a tick: a Register, an Unregister, a discarded frame and the
\* steps of the observers and of the clock leave it as it was.  And what a
\* command or a tick makes of it is given by the TimerState before, the
\* event and the clock alone, so the state reached by a sequence of commands
\* and ticks does not depend on the observers, their queues or the sender.
C29_SingleWriter ==
    [][/\ ts' # ts => (~EnvStep /\ lastEvent'.kind \in {"command", "tick"})
       /\ ~EnvStep => TimerResult]_vars

\* An Unregister has just removed an observer, after the clock moved on in a
\* run under way: the elapsed time the state holds is still the one the last
\* command or tick left, and the other observer is registered.
C29_Witness ==
    /\ lastEvent.kind = "unregister"
    /\ lastEvent.dropped # {}
    /\ clients # {}
    /\ ts.Status = "running"
    /\ now - ts.StartTime > ts.CurrentTime
    /\ \E c \in Clients \ clients : Len(send[c]) = SendCap

\* C30: a tick changes at most the elapsed time: while Running it sets it to
\* the time since the run's start anchor, while Stopped or Paused it changes
\* nothing; the status, the split history, the current split index, the
\* layout and the best-time, personal-best and world-record data stay.
C30_TickFrame ==
    [][(lastEvent'.kind = "tick" /\ ~EnvStep) =>
         /\ ts' = [ts EXCEPT !.CurrentTime =
                      IF ts.Status = "running" THEN now - ts.StartTime ELSE @]
         /\ ts.Status # "running" => ts' = ts
         /\ ts'.Status = ts.Status
         /\ ts'.Splits = ts.Splits
         /\ ts'.CurrentSplitIndex = ts.CurrentSplitIndex]_vars

\* A tick has just been handled while Paused, after the clock moved on, in a
\* run that had recorded a split: the elapsed time was left alone.
C30_Witness ==
    /\ lastEvent.kind = "tick"
    /\ ts.Status = "paused"
    /\ ts.Splits # << >>
    /\ now - ts.StartTime > ts.PausedAt
    /\ ts.CurrentTime # now - ts.StartTime

\* ------------------------------------------------------ best-time claims

\* The split the last NextSplit recorded.
LastSplit(t) == t.Splits[Len(t.Splits)]

\* C31: a NextSplit that records a split at index i with cumulative time c
\* records as delta c less the value bestCumulativeTimes[i] had before the
\* call when that value is not zero, and 0 when it is zero.
C31_DeltaAgainstNonZero ==
    [][(NextSplitStep /\ ts.CurrentSplitIndex < Len(ts.BestCumulativeTimes)) =>
         LET old == ts.BestCumulativeTimes[ts.CurrentSplitIndex + 1]
         IN  LastSplit(ts').Delta =
                IF old # 0 THEN LastSplit(ts').CumulativeTime - old ELSE 0]_vars

\* C31 as the code has it: the delta is c less the value bestCumulativeTimes[i]
\* had before the call when that value is above zero, and 0 when it is zero,
\* below zero, or the array has no entry i; it is never taken against the
\* value as this same call updates it.
C31_DeltaAgainstPositive ==
    [][NextSplitStep =>
         LET i == ts.CurrentSplitIndex + 1
         IN  LastSplit(ts').Delta =
                IF i <= Len(ts.BestCumulativeTimes) /\ ts.BestCumulativeTimes[i] > 0
                  THEN LastSplit(ts').CumulativeTime - ts.BestCumulativeTimes[i]
                  ELSE 0]_vars

\* The first split has just been recorded ahead of the best cumulative time:
\* the delta is negative, and the best, which this call lowered to the
\* cumulative time, is not what it was taken against.
C31_Witness ==
    /\ lastEvent.kind = "command" /\ lastEvent.cmd = "nextSplit"
    /\ ts.Status = "running"
    /\ ts.CurrentSplitIndex = 1
    /\ Len(ts.Splits) = 1
    /\ LastSplit(ts).Delta < 0
    /\ ts.BestCumulativeTimes[1] = LastSplit(ts).CumulativeTime

\* The names of the commands that run the timer.
RunCommands == {"nextSplit", "start", "pause", "reset"}

\* No entry of best-time array b that was set in a is higher in b.
NeverIncreases(a, b) ==
    /\ Len(b) = Len(a)
    /\ \A k \in 1..Len(a) : a[k] # 0 => b[k] <= a[k]

\* C32: a NextSplit that records a split at index i with segment time s and
\* cumulative time c sets bestSplitTimes[i] to s if it was zero or s is
\* strictly smaller, and bestCumulativeTimes[i] to c if it was zero or c is
\* strictly smaller, and leaves every other entry; so under nextSplit, start,
\* pause and reset no best entry that is set ever increases.
C32_BestTimesRule ==
    /\ [][NextSplitStep =>
            LET i == ts.CurrentSplitIndex + 1
                s == LastSplit(ts').SegmentTime
                c == LastSplit(ts').CumulativeTime
            IN  /\ ts'.BestSplitTimes =
                     IF i <= Len(ts.BestSplitTimes)
                       THEN [ts.BestSplitTimes EXCEPT
                               ![i] = IF @ = 0 \/ s < @ THEN s ELSE @]
                       ELSE ts.BestSplitTimes
                /\ ts'.BestCumulativeTimes =
                     IF i <= Len(ts.BestCumulativeTimes)
                       THEN [ts.BestCumulativeTimes EXCEPT
                               ![i] = IF @ = 0 \/ c < @ THEN c ELSE @]
                       ELSE ts.BestCumulativeTimes]_vars
    /\ [][(lastEvent'.kind = "command" /\ lastEvent'.cmd \in RunCommands
            /\ ~EnvStep /\ ~panicked') =>
            /\ NeverIncreases(ts.BestSplitTimes, ts'.BestSplitTimes)
            /\ NeverIncreases(ts.BestCumulativeTimes, ts'.BestCumulativeTimes)]_vars

\* The cumulative times of the n splits recorded last in t: those of the run
\* a final NextSplit completes, which recorded one split per predefined split.
RunCumulativeTimes(t, n) ==
    [k \in 1..n |-> t.Splits[Len(t.Splits) - n + k].CumulativeTime]

\* C33: when the final NextSplit sets a new personal best P, pbSplitTimes
\* becomes the cumulative times of this run's splits, and worldRecord becomes
\* P if it was set and P is strictly lower, and is unchanged otherwise; when
\* it sets no new personal best, personalBest, pbSplitTimes and worldRecord
\* are unchanged.
C33_PersonalBestRun ==
    [][FinalSplitStep =>
         LET P == RunTime(ts')
             n == Len(ts.PredefinedSplits)
         IN  IF ts.PersonalBest = 0 \/ P < ts.PersonalBest
               THEN /\ ts'.PersonalBest = P
                    /\ ts'.PBSplitTimes = RunCumulativeTimes(ts', n)
                    /\ ts'.WorldRecord =
                         IF ts.WorldRecord # 0 /\ P < ts.WorldRecord
                           THEN P ELSE ts.WorldRecord
               ELSE /\ ts'.PersonalBest = ts.PersonalBest
                    /\ ts'.PBSplitTimes = ts.PBSplitTimes
                    /\ ts'.WorldRecord = ts.WorldRecord]_vars

\* The array target after a restore of the frame d: d[f] taken over entry by
\* entry when it is an array, target before otherwise.
RestoredArrayOk(d, f, before, after) ==
    IF f \in DOMAIN d /\ d[f].k = "arr"
      THEN /\ Len(after) = Len(d[f].a)
           /\ \A i \in 1..Len(d[f].a) :
                 d[f].a[i].k = "num" => after[i] = Duration(d[f].a[i].h)
      ELSE after = before

\* The scalar target after a restore of the frame d.
RestoredNumberOk(d, f, before, after) ==
    IF f \in DOMAIN d /\ d[f].k = "num"
      THEN after = Duration(d[f].h)
      ELSE after = before

\* C34: restorePBData never rejects a snapshot: each of the six fields that
\* is present with the expected type overwrites its target, a field absent
\* or of another type leaves its target unchanged, a malformed entry of an
\* array does not change the values the other entries take; status, elapsed
\* time, splits, index, layout and title are never changed by it.
C34_RestoreFieldwise ==
    [][CommandStep("restorePBData") =>
         LET d == lastEvent'.arg.f
         IN  /\ ~panicked'
             /\ RestoredArrayOk(d, "bestSplitTimes",
                                ts.BestSplitTimes, ts'.BestSplitTimes)
             /\ RestoredArrayOk(d, "bestCumulativeTimes",
                                ts.BestCumulativeTimes, ts'.BestCumulativeTimes)
             /\ RestoredArrayOk(d, "pbSplitTimes",
                                ts.PBSplitTimes, ts'.PBSplitTimes)
             /\ RestoredNumberOk(d, "personalBest",
                                 ts.PersonalBest, ts'.PersonalBest)
             /\ RestoredNumberOk(d, "sumOfBest", ts.SumOfBest, ts'.SumOfBest)
             /\ RestoredNumberOk(d, "worldRecord",
                                 ts.WorldRecord, ts'.WorldRecord)
             /\ ts'.Status = ts.Status
             /\ ts'.CurrentTime = ts.CurrentTime
             /\ ts'.Splits = ts.Splits
             /\ ts'.CurrentSplitIndex = ts.CurrentSplitIndex
             /\ ts'.PredefinedSplits = ts.PredefinedSplits
             /\ ts'.TimerTitle = ts.TimerTitle]_vars

\* A snapshot with malformed array entries has been restored during a run
\* that holds a personal best: the numbers beside the malformed entries are
\* in place and the personal best, absent from the snapshot, is kept.
C34_Witness ==
    /\ lastEvent.kind = "command"
    /\ lastEvent.cmd = "restorePBData"
    /\ "bestCumulativeTimes" \in DOMAIN lastEvent.arg.f
    /\ "personalBest" \notin DOMAIN lastEvent.arg.f
    /\ ts.BestCumulativeTimes = <<0, -1>>
    /\ ts.PBSplitTimes = <<1, 0>>
    /\ ts.PersonalBest > 0
    /\ ts.Status = "running"
    /\ ts.Splits # << >>

\* ----------------------------------------------------- channel lifecycle

\* C35: under every interleaving of evictions, Unregister events and further
\* broadcasts, a queue that has been closed is never closed again and never
\* sent to: the loop does not fail on it (in Go both a second close and a
\* send on a closed channel panic), the queue stays closed, nothing is added
\* to it and its observer does not come back into the registry.
C35_ClosedOnceNeverSentTo ==
    [][/\ ~panicked'
       /\ \A c \in Clients :
            closed[c] => /\ closed'[c]
                         /\ Len(send'[c]) <= Len(send[c])
                         /\ c \notin clients']_vars

\* A command's broadcast has just evicted an observer while another observer
\* was closed already and a third one got the snapshot: the loop goes on.
C35_Witness ==
    /\ lastEvent.kind = "command"
    /\ lastEvent.dropped # {}
    /\ \A d \in lastEvent.dropped : closed[d] /\ Len(send[d]) = SendCap
    /\ \E d \in Clients \ lastEvent.dropped : closed[d] /\ d \notin clients
    /\ \E e \in clients : send[e] # << >> /\ send[e][Len(send[e])] = ToJSON(ts)
    /\ ~panicked

\* C36: between events of the loop an observer that has been registered is
\* in the registry if and only if its queue is open: no registered observer
\* has a closed queue, every removal from the registry closes the queue in
\* the same step, and a queue is closed only in the step that removes its
\* observer.
C36_RegisteredIffOpen ==
    /\ [](\A c \in clients : ~closed[c])
    /\ [][\A c \in Clients :
            /\ (c \in clients /\ c \notin clients') => closed'[c]
            /\ (~closed[c] /\ closed'[c]) => (c \in clients /\ c \notin clients')
            /\ (c \notin clients /\ c \in clients') => ~closed[c]]_vars

\* An Unregister has just removed one observer while another one, evicted
\* with a full queue, is closed and gone, and a third one is registered with
\* its queue open.
C36_Witness ==
    /\ lastEvent.kind = "unregister"
    /\ lastEvent.dropped = {lastEvent.client}
    /\ closed[lastEvent.client]
    /\ \E d \in Clients \ {lastEvent.client} :
          closed[d] /\ d \notin clients /\ Len(send[d]) = SendCap
    /\ \E e \in clients : ~closed[e] /\ send[e] # << >>
    /\ blocked = ""

\* ------------------------------------------------------ run invariants

\* C37: in every reachable state a Stopped timer has currentSplitIndex = -1.
C37_StoppedIndex == ts.Status = "stopped" => ts.CurrentSplitIndex = -1

\* A reset has just stopped a run that had recorded a split and stood at a
\* later one.
C37_Witness ==
    /\ lastEvent.kind = "command" /\ lastEvent.cmd = "reset"
    /\ ts.Status = "stopped"
    /\ ts.CurrentSplitIndex = -1
    /\ Len(ts.PredefinedSplits) >= 2
    /\ ts.BestSplitTimes # [i \in 1..Len(ts.PredefinedSplits) |-> 0]
    /\ ts.PersonalBest = 0

\* C38: in every reachable state every recorded split has segmentTime >= 0
\* and the cumulative times along splits do not decrease, in insertion
\* order.
C38_SplitsMonotone ==
    /\ \A i \in 1..Len(ts.Splits) : ts.Splits[i].SegmentTime >= 0
    /\ \A i \in 1..(Len(ts.Splits) - 1) :
          ts.Splits[i].CumulativeTime <= ts.Splits[i + 1].CumulativeTime

\* C39: a run can always be finished by splitting: in every reachable state
\* with status Running and a non-empty layout the split index is at least 0,
\* so that nextSplit commands alone lead to Stopped.
C39_RunCanFinish ==
    (ts.Status = "running" /\ Len(ts.PredefinedSplits) > 0)
       => ts.CurrentSplitIndex >= 0

\* C40: every snapshot broadcast with status Running carries an elapsed time
\* of the current run: the snapshot queued to an observer is no greater than
\* the time since the run's (pause-adjusted) start, so that the snapshot of
\* a start from Stopped never carries the final time of a previous run.
C40_ElapsedOfCurrentRun ==
    [][BroadcastStep =>
         \A c \in clients \cap clients' :
            LET m == send'[c][Len(send'[c])]
            IN  m.status = "running"
                  => m.currentTime <= now' - ts'.StartTime]_vars

====
